---- MODULE Spec2Model ----
(***************************************************************************)
(* Model of bot_twelve.py: a single-shot RSI crossover check.              *)
(*                                                                         *)
(* The script reads three secrets from the environment, fetches a window   *)
(* of candles, computes Wilder's RSI over the closing prices, compares the *)
(* last two RSI values against the levels 30 and 80 and posts at most one  *)
(* message.                                                                *)
(*                                                                         *)
(* Arithmetic.  The script computes in IEEE doubles; the model computes    *)
(* the same recurrences exactly, over the rationals, and keeps the IEEE    *)
(* special values that decide the control flow: NaN (0/0, every comparison *)
(* with it is false) and the infinite quotient x/0, x > 0, whose RSI is    *)
(* 100.  A rational is a pair of naturals; naturals are held as sequences  *)
(* of limbs (least significant first) because the numerators of a window   *)
(* of RSI_PERIOD + 2 candles exceed 32 bits.                               *)
(***************************************************************************)
EXTENDS Integers, Sequences, FiniteSets, TLC

\* ------------------------------------------------------------------ bounds

\* Longest window of candles a response holds in Spec.
MaxLen == 4
\* Closing prices of Spec are 1..MaxPrice.
MaxPrice == 3
\* SpecMono: windows of RSI_PERIOD+2 .. RSI_PERIOD+2+MonoSpread candles,
\* priced in 1..RSI_PERIOD+2+MonoSpread.
MonoSpread == 2
\* SpecDetect: RSI values within GridHalf tenths of each level.
GridHalf == 3

\* --------------------------------------------------------------- constants

RSI_PERIOD == 14

\* ------------------------------------------------- exact natural numbers

Base == 1000 * 1000

RECURSIVE BigOfInt(_)
BigOfInt(n) ==
    IF n = 0 THEN <<>> ELSE <<n % Base>> \o BigOfInt(n \div Base)

RECURSIVE BigAddC(_, _, _)
BigAddC(a, b, carry) ==
    IF a = <<>> /\ b = <<>>
    THEN BigOfInt(carry)
    ELSE LET x == IF a = <<>> THEN 0 ELSE Head(a)
             y == IF b = <<>> THEN 0 ELSE Head(b)
             s == x + y + carry
         IN  <<s % Base>> \o BigAddC(IF a = <<>> THEN a ELSE Tail(a),
                                     IF b = <<>> THEN b ELSE Tail(b),
                                     s \div Base)

BigAdd(a, b) == BigAddC(a, b, 0)

RECURSIVE BigMulC(_, _, _)
BigMulC(a, k, carry) ==
    IF a = <<>>
    THEN BigOfInt(carry)
    ELSE LET p == Head(a) * k + carry
         IN  <<p % Base>> \o BigMulC(Tail(a), k, p \div Base)

\* a * k for a small natural k (k * Base fits the machine integer).
BigMulSmall(a, k) == IF k = 0 THEN <<>> ELSE BigMulC(a, k, 0)

RECURSIVE BigPow(_, _)
BigPow(b, e) == IF e = 0 THEN <<1>> ELSE BigMulSmall(BigPow(b, e - 1), b)

RECURSIVE BigLeFrom(_, _, _)
BigLeFrom(a, b, i) ==
    IF i = 0 THEN TRUE
    ELSE IF a[i] # b[i] THEN a[i] < b[i]
    ELSE BigLeFrom(a, b, i - 1)

\* a <= b, both without leading zero limbs.
BigLe(a, b) ==
    IF Len(a) # Len(b) THEN Len(a) < Len(b) ELSE BigLeFrom(a, b, Len(a))

\* ---------------------------------------------------------------- values

\* A float that is either NaN or the integer v (a closing price).
Num(v) == [nan |-> FALSE, v |-> v]
NaN == [nan |-> TRUE, v |-> 0]

\* An RSI value: NaN, or the rational num / den (den > 0).
RsiNaN == [nan |-> TRUE, num |-> <<>>, den |-> <<>>]
Rsi(num, den) == [nan |-> FALSE, num |-> num, den |-> den]

\* ---------------------------------------------------------- calculate_rsi

\* series.diff(): the first difference; NaN at the first index and wherever
\* one of the two prices is NaN.
diff(series) ==
    [i \in 1..Len(series) |->
        IF i = 1 \/ series[i].nan \/ series[i - 1].nan
        THEN NaN
        ELSE Num(series[i].v - series[i - 1].v)]

\* delta.where(delta > 0, 0.0): the comparison is false for NaN.
gain(delta) ==
    [i \in 1..Len(delta) |-> IF ~delta[i].nan /\ delta[i].v > 0 THEN delta[i].v ELSE 0]

\* -delta.where(delta < 0, 0.0)
loss(delta) ==
    [i \in 1..Len(delta) |-> IF ~delta[i].nan /\ delta[i].v < 0 THEN -delta[i].v ELSE 0]

\* x.ewm(com=period-1, adjust=False).mean(): with alpha = 1/(1+com) =
\* 1/period,
\*   mean[1] = x[1],   mean[i] = (1-alpha)*mean[i-1] + alpha*x[i].
\* The value at index i is held as the numerator of the fraction over
\* period^(i-1); scale is period^(i-2), the weight alpha*x[i] has there.
RECURSIVE ewm_from(_, _, _, _, _)
ewm_from(x, period, i, scale, acc) ==
    IF i > Len(x)
    THEN acc
    ELSE ewm_from(x, period, i + 1, BigMulSmall(scale, period),
                  Append(acc, BigAdd(BigMulSmall(acc[i - 1], period - 1),
                                     BigMulSmall(scale, x[i]))))

ewm_mean(x, period) ==
    IF x = <<>>
    THEN <<>>
    ELSE ewm_from(x, period, 2, <<1>>, <<BigOfInt(x[1])>>)

\* rs = avg_gain / avg_loss; rsi = 100 - (100 / (1 + rs)), for the two
\* averages g and l at one index (over the same power of the period).
\*   0/0 is NaN and stays NaN; g/0 with g > 0 is infinite, 100/(1+rs) is then
\*   zero and the RSI is 100; otherwise 100 - 100/(1 + g/l) = 100*g / (g+l).
rsi_at(g, l) ==
    IF l = <<>>
    THEN IF g = <<>> THEN RsiNaN ELSE Rsi(BigOfInt(100), BigOfInt(1))
    ELSE Rsi(BigMulSmall(g, 100), BigAdd(g, l))

calculate_rsi(series, period) ==
    LET delta == diff(series)
        avg_gain == ewm_mean(gain(delta), period)
        avg_loss == ewm_mean(loss(delta), period)
    IN  [i \in 1..Len(series) |-> rsi_at(avg_gain[i], avg_loss[i])]

\* ------------------------------------------------------ float comparisons

\* Mutant: an undefined RSI counts as zero in `<=`.
RsiLe_NaNAsZero(r, t) == r.nan \/ BigLe(r.num, BigMulSmall(r.den, t))

\* r <= t, r > t, r >= t, r < t for an RSI value r and an integer level t;
\* each is false when r is NaN.
RsiLe(r, t) == ~r.nan /\ BigLe(r.num, BigMulSmall(r.den, t))
RsiGt(r, t) == ~r.nan /\ ~BigLe(r.num, BigMulSmall(r.den, t))
RsiGe(r, t) == ~r.nan /\ BigLe(BigMulSmall(r.den, t), r.num)
RsiLt(r, t) == ~r.nan /\ ~BigLe(BigMulSmall(r.den, t), r.num)

\* Mutant: the previous value compared strictly (prev < 30, prev > 80).
Decision_StrictPrev(prev_rsi, current_rsi) ==
    IF RsiLt(prev_rsi, 30) /\ RsiGt(current_rsi, 30) THEN "BUY"
    ELSE IF RsiGt(prev_rsi, 80) /\ RsiLt(current_rsi, 80) THEN "SELL"
    ELSE "NONE"

\* Mutant: the current value compared on the wrong side of the level.
Decision_WrongSide(prev_rsi, current_rsi) ==
    IF RsiLe(prev_rsi, 30) /\ RsiLt(current_rsi, 30) THEN "BUY"
    ELSE IF RsiGe(prev_rsi, 80) /\ RsiGt(current_rsi, 80) THEN "SELL"
    ELSE "NONE"

\* The if / elif / else of check_market.
Decision(prev_rsi, current_rsi) ==
    IF RsiLe(prev_rsi, 30) /\ RsiGt(current_rsi, 30) THEN "BUY"
    ELSE IF RsiGe(prev_rsi, 80) /\ RsiLt(current_rsi, 80) THEN "SELL"
    ELSE "NONE"

\* ------------------------------------------------------------------ state

VARIABLES
    env,            \* os.environ: BOT_TOKEN, CHAT_ID, API_KEY
    pc,             \* where the process is
    exitCode,       \* the exit status, once pc = "exited"
    fetchCalls,     \* requests.get calls issued
    fetchInFlight,  \* the process is blocked in requests.get
    sendInFlight,   \* the process is blocked in requests.post
    resp,           \* what requests.get produced
    df,             \* check_market's df: None, or the close column
    rsi,            \* df['rsi']
    prev_rsi,       \* check_market's locals
    current_rsi,
    decision,       \* the branch of the if / elif / else that ran
    posts,          \* the messages handed to requests.post, in order
    sendResult,     \* how requests.post ended
    log             \* the lines printed, in order

vars == <<env, pc, exitCode, fetchCalls, fetchInFlight, sendInFlight, resp, df,
          rsi, prev_rsi, current_rsi, decision, posts, sendResult, log>>

\* --------------------------------------------------------- configuration

\* os.environ.get(name): None when unset, else the string (possibly empty).
EnvValues == {"None", "", "secret"}

Environments == [BOT_TOKEN : EnvValues, CHAT_ID : EnvValues, API_KEY : EnvValues]

\* Python's `not v` for v a string or None.
Not(v) == v = "None" \/ v = ""

\* Mutant: `is None` tests, which let an empty string through.
ConfigMissing_NoneOnly(e) ==
    e.BOT_TOKEN = "None" \/ e.CHAT_ID = "None" \/ e.API_KEY = "None"

\* if not BOT_TOKEN or not CHAT_ID or not API_KEY
ConfigMissing(e) == Not(e.BOT_TOKEN) \/ Not(e.CHAT_ID) \/ Not(e.API_KEY)

\* ------------------------------------------------------------- the fetch

\* The `close` entry of one record of data['values']: a numeric string, a
\* string that is no number, or no entry at all.
Cell(k, v) == [k |-> k, v |-> v]

Cells(prices) ==
    {Cell("num", v) : v \in prices} \cup {Cell("text", 0), Cell("missing", 0)}

RECURSIVE SeqsUpTo(_, _)
SeqsUpTo(S, n) ==
    IF n = 0 THEN {<<>>}
    ELSE LET shorter == SeqsUpTo(S, n - 1)
         IN  shorter \cup {Append(q, x) : q \in {t \in shorter : Len(t) = n - 1}, x \in S}

Response(kind, values) == [kind |-> kind, values |-> values]

NoResponse == Response("pending", <<>>)

\* What requests.get / response.json() can produce: an exception of the
\* transport, a body that is no JSON, a JSON object without "values", and a
\* JSON object whose "values" is a list of records, newest first.
Responses ==
    {Response("exception", <<>>), Response("notjson", <<>>), Response("novalues", <<>>)}
    \cup {Response("values", q) : q \in SeqsUpTo(Cells(1..MaxPrice), MaxLen)}

\* df.iloc[::-1].reset_index(drop=True)
Reverse(q) == [i \in 1..Len(q) |-> q[Len(q) + 1 - i]]

\* pd.to_numeric of a column entry: the number of a numeric string; a record
\* without the key was filled with NaN by pd.DataFrame and stays NaN.
to_numeric(c) == IF c.k = "num" THEN Num(c.v) ELSE NaN

None == [isNone |-> TRUE, close |-> <<>>]
DataFrame(close) == [isNone |-> FALSE, close |-> close]

\* get_twelvedata_price after requests.get returned or raised: the frame it
\* returns and the lines it prints.
\*   - requests.get or response.json() raises: caught, None;
\*   - no "values": None;
\*   - df[cols] raises KeyError when no record has the column (so for an empty
\*     list too), pd.to_numeric raises ValueError on a string that is no
\*     number: caught, None;
\*   - otherwise the frame, reversed to oldest first.
get_twelvedata_price(r) ==
    IF r.kind \in {"exception", "notjson"}
    THEN [df |-> None, out |-> <<"API Request Failed">>]
    ELSE IF r.kind = "novalues"
    THEN [df |-> None, out |-> <<"Error fetching data">>]
    ELSE IF \A i \in 1..Len(r.values) : r.values[i].k = "missing"
    THEN [df |-> None, out |-> <<"API Request Failed">>]
    ELSE IF \E i \in 1..Len(r.values) : r.values[i].k = "text"
    THEN [df |-> None, out |-> <<"API Request Failed">>]
    ELSE [df |-> DataFrame(Reverse([i \in 1..Len(r.values) |-> to_numeric(r.values[i])])),
          out |-> <<>>]

\* ------------------------------------------------------------ the message

\* Mutant: the SELL branch reuses the BUY text.
Message_AlwaysBuy(direction, rsi_value, current_price) ==
    [direction |-> "BUY", rsi |-> rsi_value, price |-> current_price]

\* The f-string of the alert: direction, RSI and price interpolated.
Message(direction, rsi_value, current_price) ==
    [direction |-> direction, rsi |-> rsi_value, price |-> current_price]

\* ----------------------------------------------------------- check_market

\* check_market from the return of get_twelvedata_price to its next blocking
\* call or its end: what it leaves in each variable.
\*   next = "return"     the function returned, the process exits 0
\*   next = "IndexError" df['rsi'].iloc[-2] raised, uncaught: exit status 1
\*   next = "post"       send_telegram_message called requests.post
Outcome(next, frame, r, cur, prev, d, msgs, out) ==
    [next |-> next, df |-> frame, rsi |-> r, current_rsi |-> cur,
     prev_rsi |-> prev, decision |-> d, posts |-> msgs, out |-> out]

check_market(r) ==
    LET got == get_twelvedata_price(r)
    IN  IF got.df.isNone \/ Len(got.df.close) = 0
        THEN Outcome("return", got.df, <<>>, RsiNaN, RsiNaN, "PENDING", <<>>,
                     got.out \o <<"No data received.">>)
        ELSE
        LET close == got.df.close
            n == Len(close)
            r14 == calculate_rsi(close, RSI_PERIOD)
        IN  IF n < 2
            THEN Outcome("IndexError", got.df, r14, r14[n], RsiNaN, "PENDING", <<>>,
                         got.out \o <<"Traceback">>)
            ELSE
            LET d == Decision(r14[n - 1], r14[n])
            IN  IF d = "NONE"
                THEN Outcome("return", got.df, r14, r14[n], r14[n - 1], d, <<>>,
                             got.out \o <<"Analyzed", "No crossover detected.">>)
                ELSE Outcome("post", got.df, r14, r14[n], r14[n - 1], d,
                             <<Message(d, r14[n], close[n])>>,
                             got.out \o <<"Analyzed">>)

\* print("Buy Alert Sent") / print("Sell Alert Sent")
Confirmation(d) == IF d = "BUY" THEN "Buy Alert Sent" ELSE "Sell Alert Sent"

\* ---------------------------------------------------------------- actions

Init ==
    /\ env \in Environments
    /\ pc = "startup"
    /\ exitCode = 0
    /\ fetchCalls = 0
    /\ fetchInFlight = FALSE
    /\ sendInFlight = FALSE
    /\ resp = NoResponse
    /\ df = None
    /\ rsi = <<>>
    /\ prev_rsi = RsiNaN
    /\ current_rsi = RsiNaN
    /\ decision = "PENDING"
    /\ posts = <<>>
    /\ sendResult = "none"
    /\ log = <<>>

\* Module level: the secrets are read and checked.
Startup ==
    /\ pc = "startup"
    /\ IF ConfigMissing(env)
       THEN /\ log' = Append(log, "Error: Missing environment variables")
            /\ exitCode' = 1
            /\ pc' = "exited"
       ELSE /\ pc' = "main"
            /\ UNCHANGED <<log, exitCode>>
    /\ UNCHANGED <<env, fetchCalls, fetchInFlight, sendInFlight, resp, df, rsi,
                   prev_rsi, current_rsi, decision, posts, sendResult>>

\* __main__ calls check_market, which prints and enters requests.get.
BeginFetch ==
    /\ pc = "main"
    /\ log' = Append(log, "Fetching data")
    /\ fetchCalls' = fetchCalls + 1
    /\ fetchInFlight' = TRUE
    /\ pc' = "fetching"
    /\ UNCHANGED <<env, exitCode, sendInFlight, resp, df, rsi, prev_rsi,
                   current_rsi, decision, posts, sendResult>>

\* Mutant: a failed fetch is tried again.
HandleResponse_Retry(r) ==
    \E o \in {check_market(r)} :
        /\ pc = "fetching"
        /\ fetchInFlight' = FALSE
        /\ resp' = r
        /\ df' = o.df
        /\ rsi' = o.rsi
        /\ prev_rsi' = o.prev_rsi
        /\ current_rsi' = o.current_rsi
        /\ decision' = o.decision
        /\ posts' = posts \o o.posts
        /\ log' = log \o o.out
        /\ sendInFlight' = (o.next = "post")
        /\ pc' = IF o.next = "post" THEN "sending"
                 ELSE IF o.df.isNone /\ fetchCalls < 2 THEN "main" ELSE "exited"
        /\ exitCode' = IF o.next = "IndexError" THEN 1 ELSE 0
        /\ UNCHANGED <<env, fetchCalls, sendResult>>

\* requests.get ends with r; check_market runs on to its end or to
\* requests.post.  o is the one outcome of that run.
HandleResponse(r) ==
    \E o \in {check_market(r)} :
        /\ pc = "fetching"
        /\ fetchInFlight' = FALSE
        /\ resp' = r
        /\ df' = o.df
        /\ rsi' = o.rsi
        /\ prev_rsi' = o.prev_rsi
        /\ current_rsi' = o.current_rsi
        /\ decision' = o.decision
        /\ posts' = posts \o o.posts
        /\ log' = log \o o.out
        /\ sendInFlight' = (o.next = "post")
        /\ pc' = IF o.next = "post" THEN "sending" ELSE "exited"
        /\ exitCode' = IF o.next = "IndexError" THEN 1 ELSE 0
        /\ UNCHANGED <<env, fetchCalls, sendResult>>

FetchComplete == pc = "fetching" /\ \E r \in Responses : HandleResponse(r)

\* Mutant: the exception of requests.post is not caught.
SendReturns_Propagates(ok) ==
    /\ pc = "sending"
    /\ sendInFlight' = FALSE
    /\ sendResult' = IF ok THEN "returned" ELSE "raised"
    /\ log' = log \o (IF ok THEN <<Confirmation(decision)>> ELSE <<"Traceback">>)
    /\ pc' = "exited"
    /\ exitCode' = IF ok THEN 0 ELSE 1
    /\ UNCHANGED <<env, fetchCalls, fetchInFlight, resp, df, rsi, prev_rsi,
                   current_rsi, decision, posts>>

\* requests.post returns (its response is not looked at) or raises, which
\* send_telegram_message catches and prints; check_market prints the
\* confirmation and returns; the process ends.
SendReturns(ok) ==
    /\ pc = "sending"
    /\ sendInFlight' = FALSE
    /\ sendResult' = IF ok THEN "returned" ELSE "raised"
    /\ log' = log \o (IF ok THEN <<>> ELSE <<"Failed to send message">>)
                  \o <<Confirmation(decision)>>
    /\ pc' = "exited"
    /\ exitCode' = 0
    /\ UNCHANGED <<env, fetchCalls, fetchInFlight, resp, df, rsi, prev_rsi,
                   current_rsi, decision, posts>>

SendComplete == pc = "sending" /\ \E ok \in BOOLEAN : SendReturns(ok)

Next == Startup \/ BeginFetch \/ FetchComplete \/ SendComplete

Spec == Init /\ [][Next]_vars

\* ------------------------------------------- monotone windows (SpecMono)

MonoTop == RSI_PERIOD + 2 + MonoSpread

Min(S) == CHOOSE x \in S : \A y \in S : x <= y

RECURSIVE Ascending(_)
Ascending(S) ==
    IF S = {} THEN <<>> ELSE <<Min(S)>> \o Ascending(S \ {Min(S)})

\* The subsets of 1..MonoTop of at most k prices.
RECURSIVE PricesLeftOut(_)
PricesLeftOut(k) ==
    IF k = 0 THEN {{}}
    ELSE LET fewer == PricesLeftOut(k - 1)
         IN  fewer \cup {d \cup {x} : d \in fewer, x \in 1..MonoTop}

\* Strictly increasing price series of RSI_PERIOD + 2 candles or more,
\* oldest first: 1..MonoTop in order, with at most MonoSpread prices left out.
RisingSeries ==
    {Ascending((1..MonoTop) \ d) : d \in PricesLeftOut(MonoSpread)}

NumCells(q) == [i \in 1..Len(q) |-> Cell("num", q[i])]

\* The provider answers newest first: a rising series arrives descending, a
\* falling one ascending.
MonoResponses ==
    {Response("values", Reverse(NumCells(q))) : q \in RisingSeries}
    \cup {Response("values", NumCells(q)) : q \in RisingSeries}

InitMono == Init /\ ~ConfigMissing(env)

FetchMono == pc = "fetching" /\ \E r \in MonoResponses : HandleResponse(r)

NextMono == Startup \/ BeginFetch \/ FetchMono

SpecMono == InitMono /\ [][NextMono]_vars

\* ------------------------------------- the crossover rules (SpecDetect)

\* The RSI value k / 10.
RsiTenths(k) == Rsi(BigOfInt(k), BigOfInt(10))

\* RSI values, in tenths: the ends of the scale and the neighbourhood of
\* each level.
DetectGrid ==
    {0, 1000} \cup ((300 - GridHalf)..(300 + GridHalf))
              \cup ((800 - GridHalf)..(800 + GridHalf))

InitDetect ==
    /\ env = [BOT_TOKEN |-> "secret", CHAT_ID |-> "secret", API_KEY |-> "secret"]
    /\ pc = "detect"
    /\ exitCode = 0
    /\ fetchCalls = 0
    /\ fetchInFlight = FALSE
    /\ sendInFlight = FALSE
    /\ resp = NoResponse
    /\ df = None
    /\ rsi = <<>>
    /\ prev_rsi \in {RsiTenths(k) : k \in DetectGrid}
    /\ current_rsi \in {RsiTenths(k) : k \in DetectGrid}
    /\ decision = "PENDING"
    /\ posts = <<>>
    /\ sendResult = "none"
    /\ log = <<>>

\* The if / elif / else applied to the two locals.
Detect ==
    /\ pc = "detect"
    /\ decision' = Decision(prev_rsi, current_rsi)
    /\ pc' = "decided"
    /\ UNCHANGED <<env, exitCode, fetchCalls, fetchInFlight, sendInFlight, resp,
                   df, rsi, prev_rsi, current_rsi, posts, sendResult, log>>

NextDetect == Detect

SpecDetect == InitDetect /\ [][NextDetect]_vars

\* ----------------------------------------------------------- properties

Last(q) == q[Len(q)]

\* The process has run check_market past the fetch.
Fetched == resp.kind # "pending"

\* check_market compared the two RSI values.
Compared == decision # "PENDING"

HundredRsi == Rsi(BigOfInt(100), BigOfInt(1))

\* C1: for defined RSI values prev and curr the decision is BUY exactly when
\* prev <= 30 and curr > 30, otherwise SELL exactly when prev >= 80 and
\* curr < 80, otherwise NONE (values in tenths: 300 is 30.0, 800 is 80.0).
C1_DecisionRules ==
    pc = "decided" =>
        \A p \in DetectGrid, c \in DetectGrid :
            (prev_rsi = RsiTenths(p) /\ current_rsi = RsiTenths(c)) =>
                decision = IF p <= 300 /\ c > 300 THEN "BUY"
                           ELSE IF p >= 800 /\ c < 800 THEN "SELL"
                           ELSE "NONE"

\* prev = 30.0 exactly and curr = 30.1: the inclusive boundary gives BUY.
C1_Witness ==
    /\ pc = "decided"
    /\ prev_rsi = RsiTenths(300)
    /\ current_rsi = RsiTenths(301)
    /\ decision = "BUY"

\* C2: wherever the smoothed average loss is exactly zero, the RSI is 100
\* (never NaN), index 0 and constant series included.
C2_ZeroLossIsHundred ==
    rsi # <<>> =>
        \A i \in 1..Len(rsi) :
            ewm_mean(loss(diff(df.close)), RSI_PERIOD)[i] = <<>> => rsi[i] = HundredRsi

\* C3: with a secret missing or empty the process exits 1 and makes no
\* network call, neither the fetch nor the notification.
C3_ConfigAbort ==
    (\E k \in {"BOT_TOKEN", "CHAT_ID", "API_KEY"} : env[k] \in {"None", ""}) =>
        /\ fetchCalls = 0
        /\ ~fetchInFlight
        /\ ~sendInFlight
        /\ posts = <<>>
        /\ pc \in {"startup", "exited"}
        /\ pc = "exited" => exitCode = 1

\* An empty API key alone aborts the run.
C3_Witness ==
    /\ env = [BOT_TOKEN |-> "secret", CHAT_ID |-> "secret", API_KEY |-> ""]
    /\ pc = "exited"
    /\ exitCode = 1
    /\ fetchCalls = 0

\* C4: the exit code is 1 if and only if configuration is absent; with all
\* three secrets present the process exits 0 whatever the fetch returned.
C4_ExitCode ==
    pc = "exited" =>
        (exitCode = 1 <=>
            \E k \in {"BOT_TOKEN", "CHAT_ID", "API_KEY"} : env[k] \in {"None", ""})

\* A response that is a fetch failure in the sense of C5.
FetchFailure(r) ==
    \/ r.kind \in {"exception", "notjson", "novalues"}
    \/ /\ r.kind = "values"
       /\ \/ r.values = <<>>
          \/ \E i \in 1..Len(r.values) : r.values[i].k \in {"missing", "text"}

\* C5: every fetch failure ends the run with the no-data diagnostic: no
\* frame, no RSI, no comparison, no notification, no second fetch.
C5_FetchFailureEndsRun ==
    (Fetched /\ FetchFailure(resp)) =>
        /\ df = None
        /\ rsi = <<>>
        /\ ~Compared
        /\ posts = <<>>
        /\ fetchCalls = 1
        /\ pc = "exited"
        /\ Last(log) = "No data received."

WithoutFailure(q) == SelectSeq(q, LAMBDA line : line # "Failed to send message")

\* C6: a send that raises is printed and swallowed: one post only, no
\* exception, and the run ends as after a send that returned, confirmation
\* included.
C6_SendFailureSwallowed ==
    sendResult # "none" =>
        /\ pc = "exited"
        /\ exitCode = 0
        /\ Len(posts) = 1
        /\ ~sendInFlight
        /\ WithoutFailure(log) =
              <<"Fetching data", "Analyzed",
                IF posts[1].direction = "BUY" THEN "Buy Alert Sent" ELSE "Sell Alert Sent">>
        /\ (sendResult = "raised") = (WithoutFailure(log) # log)

C6_Witness ==
    /\ sendResult = "raised"
    /\ pc = "exited"
    /\ Last(log) = "Sell Alert Sent"

\* C7: at most one fetch request and one notification request per run, never
\* both in flight, and a notification only after the fetch of the run
\* returned data.
C7_OneCallEachInOrder ==
    /\ fetchCalls <= 1
    /\ Len(posts) <= 1
    /\ ~(fetchInFlight /\ sendInFlight)
    /\ (sendInFlight \/ posts # <<>>) =>
          /\ fetchCalls = 1
          /\ ~fetchInFlight
          /\ resp.kind = "values"
          /\ ~df.isNone

C7_Witness ==
    /\ sendInFlight
    /\ Len(posts) = 1
    /\ fetchCalls = 1

\* C8: with a window of 2 candles or more, one message is sent when the last
\* two RSI values satisfy the BUY or the SELL rule and none otherwise, and
\* the message is the BUY text for BUY and the SELL text for SELL.
C8_OneMessagePerCrossover ==
    (pc \in {"sending", "exited"} /\ ~df.isNone /\ Len(df.close) >= 2) =>
        LET n == Len(rsi)
            buy == RsiLe(rsi[n - 1], 30) /\ RsiGt(rsi[n], 30)
            sell == RsiGe(rsi[n - 1], 80) /\ RsiLt(rsi[n], 80)
        IN  /\ Len(posts) = IF buy \/ sell THEN 1 ELSE 0
            /\ buy => posts[1].direction = "BUY"
            /\ (~buy /\ sell) => posts[1].direction = "SELL"

C8_Witness ==
    /\ pc = "exited"
    /\ Len(df.close) >= 2
    /\ Len(posts) = 1
    /\ posts[1].direction = "SELL"
    /\ RsiGe(prev_rsi, 80)
    /\ RsiLt(current_rsi, 80)

Rising(q) == \A i \in 2..Len(q) : ~q[i].nan /\ ~q[i - 1].nan /\ q[i - 1].v < q[i].v
Falling(q) == \A i \in 2..Len(q) : ~q[i].nan /\ ~q[i - 1].nan /\ q[i - 1].v > q[i].v

\* C9: a strictly increasing series of RSI_PERIOD + 2 closes or more never
\* gives SELL, a strictly decreasing one never gives BUY.
C9_MonotoneNeverOpposes ==
    (Fetched /\ ~df.isNone /\ Len(df.close) >= RSI_PERIOD + 2) =>
        /\ Rising(df.close) =>
              /\ decision # "SELL"
              /\ \A i \in 1..Len(posts) : posts[i].direction # "SELL"
        /\ Falling(df.close) =>
              /\ decision # "BUY"
              /\ \A i \in 1..Len(posts) : posts[i].direction # "BUY"

C9_Witness ==
    /\ pc = "exited"
    /\ Len(df.close) = RSI_PERIOD + 2
    /\ Rising(df.close)
    /\ prev_rsi = HundredRsi
    /\ current_rsi = HundredRsi
    /\ decision = "NONE"

Constant(q) == \A i \in 1..Len(q) : ~q[i].nan /\ q[i].v = q[1].v

\* C10: when one of the two compared RSI values is NaN, neither rule matches:
\* no message, "No crossover detected.", no error; the previous value of a
\* 2-candle window is NaN, and so are both values of a constant window.
C10_NaNNoCrossover ==
    /\ (Compared /\ (prev_rsi.nan \/ current_rsi.nan)) =>
          /\ decision = "NONE"
          /\ posts = <<>>
          /\ pc = "exited"
          /\ exitCode = 0
          /\ Last(log) = "No crossover detected."
    /\ (Fetched /\ ~df.isNone /\ Len(df.close) = 2) => (Compared /\ prev_rsi.nan)
    /\ (Fetched /\ ~df.isNone /\ Len(df.close) >= 2 /\ Constant(df.close)) =>
          (Compared /\ prev_rsi.nan /\ current_rsi.nan)

\* A 2-candle window that rises: NaN then 100.
C10_Witness ==
    /\ Compared
    /\ Len(df.close) = 2
    /\ prev_rsi.nan
    /\ current_rsi = HundredRsi
    /\ Last(log) = "No crossover detected."

====
